---- MODULE Spec2Model ----
(***************************************************************************)
(* Model of src/main.py: the statement accessor get_data_safe, the         *)
(* working-capital resolver get_working_capital_safe and the report        *)
(* pipeline run_full_analysis.                                             *)
(*                                                                         *)
(* Numbers are IEEE doubles in the program.  Here a value is a record      *)
(* [k, n, d]: k = "num" is the finite rational n/d (d > 0, lowest terms),  *)
(* k = "nan" is NaN (also pandas' missing cell), k = "inf" / "ninf" are    *)
(* the two infinities and k = "none" is Python's None.                     *)
(***************************************************************************)
EXTENDS Integers, Sequences, FiniteSets, TLC

\* ------------------------------------------------------------------ bounds
MaxCols == 2      \* accessor tables have 0..MaxCols period columns
MaxKeys == 3      \* alias lists have 0..MaxKeys entries
MaxYear == 2      \* short statements cover period years within 1..MaxYear
MaxDefects == 2   \* statements differ from the reference one in <= MaxDefects places

\* ------------------------------------------------------------------ values
Abs(x) == IF x < 0 THEN -x ELSE x

RECURSIVE Gcd(_, _)
Gcd(a, b) == IF b = 0 THEN a ELSE Gcd(b, a % b)

NaN  == [k |-> "nan",  n |-> 0, d |-> 1]
Inf  == [k |-> "inf",  n |-> 0, d |-> 1]
NInf == [k |-> "ninf", n |-> 0, d |-> 1]
None == [k |-> "none", n |-> 0, d |-> 1]

\* the finite number n/d, d > 0, in lowest terms
Frac(n, d) ==
    LET g == Gcd(Abs(n), d)
    IN  [k |-> "num", n |-> n \div g, d |-> d \div g]

Num(n) == [k |-> "num", n |-> n, d |-> 1]

IsFinite(v) == v.k = "num"
IsZero(v) == v.k = "num" /\ v.n = 0

\* float negation
Neg(v) ==
    CASE v.k = "num"  -> [v EXCEPT !.n = -v.n]
      [] v.k = "inf"  -> NInf
      [] v.k = "ninf" -> Inf
      [] OTHER        -> NaN

\* float addition: NaN is contagious, inf + (-inf) is NaN
Add(a, b) ==
    CASE a.k = "nan" \/ b.k = "nan" -> NaN
      [] a.k = "num" /\ b.k = "num" -> Frac(a.n * b.d + b.n * a.d, a.d * b.d)
      [] a.k = "num" -> b
      [] b.k = "num" -> a
      [] a.k = b.k   -> a
      [] OTHER       -> NaN

Sub(a, b) == Add(a, Neg(b))

\* float multiplication by a positive integer constant (the * 100 and * 365)
MulC(a, c) == IF a.k = "num" THEN Frac(a.n * c, a.d) ELSE a

\* float division of two finite-or-NaN operands: x/0 is +-inf, 0/0 is NaN,
\* and nothing is raised (numpy float64 semantics)
Div(a, b) ==
    CASE a.k # "num" \/ b.k # "num" -> NaN
      [] b.n = 0 /\ a.n = 0 -> NaN
      [] b.n = 0 /\ a.n > 0 -> Inf
      [] b.n = 0 /\ a.n < 0 -> NInf
      [] b.n > 0 -> Frac(a.n * b.d, a.d * b.n)
      [] OTHER   -> Frac(-(a.n * b.d), a.d * (-b.n))

\* ------------------------------------------------------------------ Series
\* A pandas Series: its index (a sequence of distinct labels) and a value per label.
Range(s) == {s[i] : i \in 1..Len(s)}

RECURSIVE SortedSeq(_)
SortedSeq(S) ==
    IF S = {} THEN <<>>
    ELSE LET m == CHOOSE x \in S : \A y \in S : x <= y
         IN  <<m>> \o SortedSeq(S \ {m})

\* index of a binary operation: the operands' own index when they agree,
\* otherwise the sorted union of the two (pandas' label alignment)
AlignIndex(a, b) ==
    IF a.index = b.index THEN a.index
    ELSE SortedSeq(Range(a.index) \cup Range(b.index))

At(s, p) == IF p \in Range(s.index) THEN s.val[p] ELSE NaN

SAdd(a, b) ==
    LET idx == AlignIndex(a, b)
    IN  [index |-> idx, val |-> [p \in Range(idx) |-> Add(At(a, p), At(b, p))]]

SSub(a, b) ==
    LET idx == AlignIndex(a, b)
    IN  [index |-> idx, val |-> [p \in Range(idx) |-> Sub(At(a, p), At(b, p))]]

SDiv(a, b) ==
    LET idx == AlignIndex(a, b)
    IN  [index |-> idx, val |-> [p \in Range(idx) |-> Div(At(a, p), At(b, p))]]

SMulC(a, c) == [index |-> a.index, val |-> [p \in Range(a.index) |-> MulC(a.val[p], c)]]

SAbs(a) ==
    [index |-> a.index,
     val |-> [p \in Range(a.index) |->
                IF a.val[p].k = "num" THEN [a.val[p] EXCEPT !.n = Abs(a.val[p].n)]
                ELSE IF a.val[p].k = "ninf" THEN Inf ELSE a.val[p]]]

\* Series.fillna(0)
FillNa0(s) ==
    [index |-> s.index,
     val |-> [p \in Range(s.index) |-> IF s.val[p].k = "nan" THEN Num(0) ELSE s.val[p]]]

\* pd.Series([0.0] * len(df.columns), index=df.columns)
ZeroSeries(columns) == [index |-> columns, val |-> [p \in Range(columns) |-> Num(0)]]

\* Series.sum() of a series of finite numbers (0 for the empty series)
RECURSIVE SumFrom(_, _)
SumFrom(s, i) ==
    IF i > Len(s.index) THEN Num(0)
    ELSE Add(s.val[s.index[i]], SumFrom(s, i + 1))

SSum(s) == SumFrom(s, 1)

\* `s.mean() != 0`: the mean of an empty series is NaN, and NaN != 0 is True
MeanNonZero(s) == IF Len(s.index) = 0 THEN TRUE ELSE ~IsZero(SSum(s))

\* Series.pct_change(): NaN at the first position, then x[t]/x[t-1] - 1
PctChange(s) ==
    [index |-> s.index,
     val |-> [p \in Range(s.index) |->
        LET i == CHOOSE j \in 1..Len(s.index) : s.index[j] = p
        IN  IF i = 1 THEN NaN
            ELSE Sub(Div(s.val[p], s.val[s.index[i - 1]]), Num(1))]]

\* Series.diff(): NaN at the first position, then x[t] - x[t-1]
Diff(s) ==
    [index |-> s.index,
     val |-> [p \in Range(s.index) |->
        LET i == CHOOSE j \in 1..Len(s.index) : s.index[j] = p
        IN  IF i = 1 THEN NaN ELSE Sub(s.val[p], s.val[s.index[i - 1]])]]

\* ------------------------------------------------------------------ DataFrame
\* A statement table: period columns, row labels (distinct) and a cell per
\* row and column; a cell is a finite number or NaN (missing).
InIndex(df, k) == \E i \in 1..Len(df.index) : df.index[i] = k

\* df.loc[k]
Loc(df, k) == [index |-> df.columns, val |-> df.data[k]]

\* get_data_safe, on mutation returning the matched row without fillna(0)
RECURSIVE GetDataSafeNoFillFrom(_, _, _)
GetDataSafeNoFillFrom(df, keys, i) ==
    IF i > Len(keys) THEN ZeroSeries(df.columns)
    ELSE IF InIndex(df, keys[i]) THEN Loc(df, keys[i])
    ELSE GetDataSafeNoFillFrom(df, keys, i + 1)

GetDataSafeNoFill(df, keys) == GetDataSafeNoFillFrom(df, keys, 1)

\* get_data_safe, on mutation scanning the table's rows instead of the aliases:
\* the first row (in table order) whose label is any alias
RECURSIVE GetDataSafeRowOrderFrom(_, _, _)
GetDataSafeRowOrderFrom(df, keys, i) ==
    IF i > Len(df.index) THEN ZeroSeries(df.columns)
    ELSE IF df.index[i] \in Range(keys) THEN FillNa0(Loc(df, df.index[i]))
    ELSE GetDataSafeRowOrderFrom(df, keys, i + 1)

GetDataSafeRowOrder(df, keys) == GetDataSafeRowOrderFrom(df, keys, 1)

\* the loop of get_data_safe from alias number i on
RECURSIVE GetDataSafeFrom(_, _, _)
GetDataSafeFrom(df, keys, i) ==
    IF i > Len(keys) THEN ZeroSeries(df.columns)
    ELSE IF InIndex(df, keys[i]) THEN FillNa0(Loc(df, keys[i]))
    ELSE GetDataSafeFrom(df, keys, i + 1)

GetDataSafe(df, keys) == GetDataSafeFrom(df, keys, 1)

\* get_working_capital_safe's current assets: the total row, or the sum of
\* cash, receivables and inventory when the total sums to zero
WcCurrentAssets(stmt) ==
    LET ca == GetDataSafe(stmt, <<"Total Current Assets", "Current Assets">>)
    IN  IF IsZero(SSum(ca))
        THEN LET cash == GetDataSafe(stmt, <<"Cash And Cash Equivalents",
                             "Cash Cash Equivalents And Short Term Investments">>)
                 rec == GetDataSafe(stmt, <<"Net Receivables", "Receivables">>)
                 inv == GetDataSafe(stmt, <<"Inventory">>)
             IN  SAdd(SAdd(cash, rec), inv)
        ELSE ca

\* get_working_capital_safe's current liabilities: the total row, or the sum
\* of payables and tax liabilities when the total sums to zero
WcCurrentLiabilities(stmt) ==
    LET cl == GetDataSafe(stmt, <<"Total Current Liabilities", "Current Liabilities">>)
    IN  IF IsZero(SSum(cl))
        THEN LET ap == GetDataSafe(stmt, <<"Accounts Payable">>)
                 tax == GetDataSafe(stmt, <<"Tax Liabilities", "Income Tax Payable">>)
             IN  SAdd(ap, tax)
        ELSE cl

\* get_working_capital_safe, on mutation netting cash out of current assets
GetWorkingCapitalNetOfCash(stmt) ==
    SSub(SSub(WcCurrentAssets(stmt),
              GetDataSafe(stmt, <<"Cash And Cash Equivalents",
                   "Cash Cash Equivalents And Short Term Investments">>)),
         WcCurrentLiabilities(stmt))

GetWorkingCapitalSafe(stmt) == SSub(WcCurrentAssets(stmt), WcCurrentLiabilities(stmt))

\* ------------------------------------------------------------------ period axis
Window == 10

\* sort_index(axis=1): the columns in ascending order
SortIndex(columns) == SortedSeq(Range(columns))

\* iloc[:, -10:]: the last Window columns
LastCols(columns) ==
    IF Len(columns) <= Window THEN columns
    ELSE SubSeq(columns, Len(columns) - Window + 1, Len(columns))

\* stmt.sort_index(axis=1).iloc[:, -10:]
SortTruncate(df) ==
    LET cols == LastCols(SortIndex(df.columns))
    IN  [columns |-> cols,
         index |-> df.index,
         data |-> [l \in Range(df.index) |-> [p \in Range(cols) |-> df.data[l][p]]]]

\* Series.iloc[-1] of a non-empty series
ILast(s) == s.val[s.index[Len(s.index)]]

\* pd.Series([None] * n): a RangeIndex 0..n-1, every value None
RECURSIVE RangeIndex(_)
RangeIndex(n) == IF n = 0 THEN <<>> ELSE RangeIndex(n - 1) \o <<n - 1>>

NoneSeries(n) == [index |-> RangeIndex(n), val |-> [p \in 0..(n - 1) |-> None]]

\* ------------------------------------------------------------------ provider data
\* The row labels run_full_analysis reads from each statement, plus the
\* provider's short-term-debt row ("Current Debt"), which it never reads.
ISLabels ==
    <<"Diluted EPS", "Basic EPS", "Total Revenue", "Net Income", "Gross Profit",
      "Cost Of Revenue", "EBIT", "Interest Expense">>

BSLabels ==
    <<"Total Current Assets", "Current Assets", "Total Current Liabilities",
      "Current Liabilities", "Cash And Cash Equivalents",
      "Cash Cash Equivalents And Short Term Investments", "Net Receivables",
      "Receivables", "Inventory", "Accounts Payable", "Tax Liabilities",
      "Income Tax Payable", "Total Assets", "Total Liabilities Net Minority Interest",
      "Total Liabilities", "Stockholders Equity", "Current Debt">>

CFLabels == <<"Operating Cash Flow", "Capital Expenditure">>

AllLabels == Range(ISLabels) \cup Range(BSLabels) \cup Range(CFLabels)

\* The reference statement's figures: row `l` holds b + s * (year - 1).
RefRow(l) ==
    CASE l = "Diluted EPS" -> <<2, 1>>
      [] l = "Basic EPS" -> <<3, 1>>
      [] l = "Total Revenue" -> <<100, 20>>
      [] l = "Net Income" -> <<10, 5>>
      [] l = "Gross Profit" -> <<40, 10>>
      [] l = "Cost Of Revenue" -> <<60, 10>>
      [] l = "EBIT" -> <<50, 10>>
      [] l = "Interest Expense" -> <<-5, -1>>
      [] l = "Total Current Assets" -> <<95, 10>>
      [] l = "Current Assets" -> <<90, 10>>
      [] l = "Total Current Liabilities" -> <<55, 5>>
      [] l = "Current Liabilities" -> <<50, 5>>
      [] l = "Cash And Cash Equivalents" -> <<30, 5>>
      [] l = "Cash Cash Equivalents And Short Term Investments" -> <<35, 5>>
      [] l = "Net Receivables" -> <<22, 2>>
      [] l = "Receivables" -> <<20, 2>>
      [] l = "Inventory" -> <<25, 3>>
      [] l = "Accounts Payable" -> <<15, 2>>
      [] l = "Tax Liabilities" -> <<6, 1>>
      [] l = "Income Tax Payable" -> <<4, 1>>
      [] l = "Total Assets" -> <<200, 20>>
      [] l = "Total Liabilities Net Minority Interest" -> <<120, 10>>
      [] l = "Total Liabilities" -> <<118, 10>>
      [] l = "Stockholders Equity" -> <<80, 10>>
      [] l = "Current Debt" -> <<10, 1>>
      [] l = "Operating Cash Flow" -> <<30, 5>>
      [] OTHER -> <<-10, -2>>

RefVal(l, y) == RefRow(l)[1] + RefRow(l)[2] * (y - 1)

\* Rows the provider's reference statement does not carry (it names them by
\* the other alias).
RefAbsent ==
    {"Total Current Assets", "Total Current Liabilities", "Net Receivables",
     "Tax Liabilities", "Total Liabilities"}

\* How a row can look: absent, as in the reference statement, every cell
\* missing, or zero in the latest period.
Shapes == {"absent", "base", "nan", "zerolast"}

RefShape(l) == IF l \in RefAbsent THEN "absent" ELSE "base"

SeqMax(columns) == CHOOSE x \in Range(columns) : \A y \in Range(columns) : y <= x

Cell(shape, l, y, columns) ==
    CASE shape = "nan" -> NaN
      [] shape = "zerolast" /\ y = SeqMax(columns) -> Num(0)
      [] OTHER -> Num(RefVal(l, y))

RECURSIVE Descending(_)
Descending(n) == IF n = 0 THEN <<>> ELSE <<n>> \o Descending(n - 1)

\* sequences without repetition over S
RECURSIVE Perms(_)
Perms(S) ==
    IF S = {} THEN {<<>>}
    ELSE UNION {{<<x>> \o q : q \in Perms(S \ {x})} : x \in S}

\* The period columns a statement may arrive with: any subset of the short
\* range in any order, or a long history of Window + 1 years, newest first.
ColumnChoices ==
    UNION {Perms(S) : S \in SUBSET (1..MaxYear)} \cup {Descending(Window + 1)}

RefColumns == Descending(MaxYear)

\* A deviation from the reference: nothing, a row of another shape, a
\* statement with other period columns, or a price history that starts later.
NoDefect == [kind |-> "none", target |-> "", shape |-> "", columns |-> <<>>]

Defects ==
    {NoDefect}
    \cup UNION {{[kind |-> "row", target |-> l, shape |-> sh, columns |-> <<>>] :
                    sh \in Shapes \ {RefShape(l)}} : l \in AllLabels}
    \cup {[kind |-> "columns", target |-> t, shape |-> "", columns |-> c] :
            t \in {"income", "cashflow", "balance"}, c \in ColumnChoices \ {RefColumns}}
    \cup {[kind |-> "price", target |-> "", shape |-> "", columns |-> <<>>]}

\* the last deviation of kind `kind` aimed at `target`, 0 when there is none
LastDefect(ds, kind, target) ==
    LET hits == {i \in 1..Len(ds) : ds[i].kind = kind /\ ds[i].target = target}
    IN  IF hits = {} THEN 0 ELSE CHOOSE i \in hits : \A j \in hits : j <= i

ShapeOf(ds, l) ==
    LET i == LastDefect(ds, "row", l)
    IN  IF i = 0 THEN RefShape(l) ELSE ds[i].shape

ColumnsOf(ds, t) ==
    LET i == LastDefect(ds, "columns", t)
    IN  IF i = 0 THEN RefColumns ELSE ds[i].columns

\* the statement `t` with rows `labels` under the deviations ds
Statement(ds, t, labels) ==
    LET cols == ColumnsOf(ds, t)
        present(l) == ShapeOf(ds, l) # "absent"
    IN  [columns |-> cols,
         index |-> SelectSeq(labels, present),
         data |-> [l \in {x \in Range(labels) : present(x)} |->
                     [y \in Range(cols) |-> Cell(ShapeOf(ds, l), l, y, cols)]]]

\* year-end closing prices: history['Close'].resample('YE').last(), indexed
\* by year; the history covers every statement year or starts a year late
AnnualPrice(ds) ==
    LET from == IF LastDefect(ds, "price", "") = 0 THEN 1 ELSE 2
        idx == SortedSeq(from..(Window + 1))
    IN  [index |-> idx, val |-> [y \in Range(idx) |-> Num(50 + 10 * y)]]

EmptyFrame == [columns |-> <<>>, index |-> <<>>, data |-> <<>>]

EmptySeries == [index |-> <<>>, val |-> <<>>]

\* ------------------------------------------------------------------ state
VARIABLES
    table,          \* get_data_safe's argument df
    aliases,        \* get_data_safe's argument keys
    resolved,       \* the series get_data_safe returned
    previous,       \* the series it returned before the rows were reordered
    apc,            \* accessor check: start, resolved, reordered, rechecked
    pc,             \* run_full_analysis: the section about to run, done or failed
    stock,          \* the provider's answer for the ticker (yf.Ticker)
    is_stmt,        \* income statement after sort and truncation
    cf_stmt,        \* cash-flow statement after sort and truncation
    bs_stmt,        \* balance sheet after sort and truncation
    annual_price,   \* year-end closing prices indexed by year
    years,          \* is_stmt.columns
    years_label,    \* the chart axis labels
    sections,       \* the report headers rendered so far
    metrics,        \* every series and figure computed so far, by name
    error           \* what the except clause reported ("" when nothing)

accessorVars == <<table, aliases, resolved, previous, apc>>

pipelineVars ==
    <<pc, stock, is_stmt, cf_stmt, bs_stmt, annual_price, years, years_label,
      sections, metrics, error>>

vars == <<accessorVars, pipelineVars>>

\* ------------------------------------------------------------------ get_data_safe alone
TableLabels == {"A", "B"}
AliasLabels == {"A", "B", "C", "D"}
CellValues == {NaN, Num(0), Num(3)}

RECURSIVE Ascending(_)
Ascending(n) == IF n = 0 THEN <<>> ELSE Ascending(n - 1) \o <<n>>

AccessorTables ==
    UNION {UNION {{[columns |-> Ascending(n), index |-> idx, data |-> d] :
                     d \in [Range(idx) -> [1..n -> CellValues]]} :
                  idx \in UNION {Perms(S) : S \in SUBSET TableLabels}} :
           n \in 0..MaxCols}

AliasLists ==
    UNION {Perms(S) : S \in {T \in SUBSET AliasLabels : Cardinality(T) <= MaxKeys}}

RECURSIVE Reverse(_)
Reverse(q) == IF q = <<>> THEN <<>> ELSE Reverse(Tail(q)) \o <<Head(q)>>

PipelineIdle ==
    /\ pc = "idle"
    /\ stock = [income_stmt |-> EmptyFrame, cashflow |-> EmptyFrame,
                balance_sheet |-> EmptyFrame, price |-> EmptySeries]
    /\ is_stmt = EmptyFrame
    /\ cf_stmt = EmptyFrame
    /\ bs_stmt = EmptyFrame
    /\ annual_price = EmptySeries
    /\ years = <<>>
    /\ years_label = <<>>
    /\ sections = <<>>
    /\ metrics = <<>>
    /\ error = ""

AccessorIdle ==
    /\ table = EmptyFrame
    /\ aliases = <<>>
    /\ resolved = EmptySeries
    /\ previous = EmptySeries
    /\ apc = "idle"

AccessorInit ==
    /\ table \in AccessorTables
    /\ aliases \in AliasLists
    /\ resolved = EmptySeries
    /\ previous = EmptySeries
    /\ apc = "start"
    /\ PipelineIdle

\* a call of get_data_safe(table, aliases)
Resolve ==
    /\ apc \in {"start", "reordered"}
    /\ resolved' = GetDataSafe(table, aliases)
    /\ apc' = IF apc = "start" THEN "resolved" ELSE "rechecked"
    /\ UNCHANGED <<table, aliases, previous, pipelineVars>>

\* the same table with its rows in the opposite order
Reorder ==
    /\ apc = "resolved"
    /\ table' = [table EXCEPT !.index = Reverse(table.index)]
    /\ previous' = resolved
    /\ apc' = "reordered"
    /\ UNCHANGED <<aliases, resolved, pipelineVars>>

AccessorNext == Resolve \/ Reorder

SpecAccessor == AccessorInit /\ [][AccessorNext]_vars

\* ------------------------------------------------------------------ run_full_analysis
\* the provider answers with statements that deviate from the reference one
\* in the places ds; nothing has run yet
StartWith(ds) ==
    /\ stock = [income_stmt |-> Statement(ds, "income", ISLabels),
                cashflow |-> Statement(ds, "cashflow", CFLabels),
                balance_sheet |-> Statement(ds, "balance", BSLabels),
                price |-> AnnualPrice(ds)]
    /\ pc = "fetch"
    /\ is_stmt = EmptyFrame
    /\ cf_stmt = EmptyFrame
    /\ bs_stmt = EmptyFrame
    /\ annual_price = EmptySeries
    /\ years = <<>>
    /\ years_label = <<>>
    /\ sections = <<>>
    /\ metrics = <<>>
    /\ error = ""
    /\ AccessorIdle

\* every statement within MaxDefects deviations of the reference one
Init == \E ds \in [1..MaxDefects -> Defects] : StartWith(ds)

\* the rows get_working_capital_safe reads, and the short-term-debt row
WorkingCapitalLabels ==
    {"Total Current Assets", "Current Assets", "Total Current Liabilities",
     "Current Liabilities", "Cash And Cash Equivalents",
     "Cash Cash Equivalents And Short Term Investments", "Net Receivables",
     "Receivables", "Inventory", "Accounts Payable", "Tax Liabilities",
     "Income Tax Payable", "Current Debt"}

BalanceDefects ==
    {d \in Defects : \/ d.kind = "none"
                     \/ d.kind = "row" /\ d.target \in WorkingCapitalLabels
                     \/ d.kind = "columns" /\ d.target = "balance"}

\* reference income and cash-flow statements, and every balance sheet within
\* MaxDefects deviations of the reference one in its working-capital rows
\* and its period columns
InitBalance == \E ds \in [1..MaxDefects -> BalanceDefects] : StartWith(ds)

\* str(y.year) for each period
YearsLabel(columns) == [i \in 1..Len(columns) |-> ToString(columns[i])]

\* lines 54-67: fetch the three statements, sort and truncate each, take the
\* income statement's columns as the period axis
Fetch ==
    /\ pc = "fetch"
    /\ is_stmt' = SortTruncate(stock.income_stmt)
    /\ cf_stmt' = SortTruncate(stock.cashflow)
    /\ bs_stmt' = SortTruncate(stock.balance_sheet)
    /\ annual_price' = stock.price
    /\ years' = is_stmt'.columns
    /\ years_label' = YearsLabel(is_stmt'.columns)
    /\ pc' = "valuation"
    /\ UNCHANGED <<stock, sections, metrics, error, accessorVars>>

\* the static P/E per period: price / EPS, or None
PeList(price, eps, yrs) ==
    [index |-> yrs,
     val |-> [y \in Range(yrs) |->
                IF y \in Range(price.index) /\ ~IsZero(eps.val[y])
                THEN Div(price.val[y], eps.val[y])
                ELSE None]]

\* lines 70-84: title and section 1
Valuation ==
    /\ pc = "valuation"
    /\ LET eps == GetDataSafe(is_stmt, <<"Diluted EPS", "Basic EPS">>)
       IN  metrics' = metrics @@ ("eps" :> eps)
                              @@ ("pe_list" :> PeList(annual_price, eps, years))
    /\ sections' = sections \o <<"title", "valuation">>
    /\ pc' = "profitability"
    /\ UNCHANGED <<stock, is_stmt, cf_stmt, bs_stmt, annual_price, years,
                   years_label, error, accessorVars>>

\* lines 87-106: section 2
Profitability ==
    /\ pc = "profitability"
    /\ LET rev == GetDataSafe(is_stmt, <<"Total Revenue">>)
           net_income == GetDataSafe(is_stmt, <<"Net Income">>)
           gp == GetDataSafe(is_stmt, <<"Gross Profit">>)
       IN  metrics' = metrics @@ ("rev" :> rev) @@ ("net_income" :> net_income)
                              @@ ("gp" :> gp)
                              @@ ("rev_growth" :> SMulC(PctChange(rev), 100))
                              @@ ("gross_margin" :> SMulC(SDiv(gp, rev), 100))
                              @@ ("net_margin" :> SMulC(SDiv(net_income, rev), 100))
    /\ sections' = Append(sections, "profitability")
    /\ pc' = "efficiency"
    /\ UNCHANGED <<stock, is_stmt, cf_stmt, bs_stmt, annual_price, years,
                   years_label, error, accessorVars>>

\* lines 109-138: section 3
Efficiency ==
    /\ pc = "efficiency"
    /\ LET rev == metrics["rev"]
           cogs == GetDataSafe(is_stmt, <<"Cost Of Revenue">>)
           receivables == GetDataSafe(bs_stmt, <<"Net Receivables", "Receivables">>)
           inventory == GetDataSafe(bs_stmt, <<"Inventory">>)
           payables == GetDataSafe(bs_stmt, <<"Accounts Payable">>)
           cost == IF MeanNonZero(cogs) THEN cogs ELSE rev
           dso == SMulC(SDiv(receivables, rev), 365)
           dio == SMulC(SDiv(inventory, cost), 365)
           dpo == SMulC(SDiv(payables, cost), 365)
           working_capital == GetWorkingCapitalSafe(bs_stmt)
       IN  metrics' = metrics @@ ("cogs" :> cogs) @@ ("receivables" :> receivables)
                              @@ ("inventory" :> inventory) @@ ("payables" :> payables)
                              @@ ("cost" :> cost)
                              @@ ("dso" :> dso) @@ ("dio" :> dio) @@ ("dpo" :> dpo)
                              @@ ("c2c_cycle" :> SSub(SAdd(dso, dio), dpo))
                              @@ ("inventory_turns" :> SDiv(rev, inventory))
                              @@ ("receivable_turns" :> SDiv(rev, receivables))
                              @@ ("working_capital" :> working_capital)
                              @@ ("working_capital_diff" :> Diff(working_capital))
    /\ sections' = Append(sections, "efficiency")
    /\ pc' = "cashflow"
    /\ UNCHANGED <<stock, is_stmt, cf_stmt, bs_stmt, annual_price, years,
                   years_label, error, accessorVars>>

\* lines 141-156: section 4; iloc[-1] of an empty series raises IndexError,
\* which the except clause (lines 185-186) reports
CashFlow ==
    /\ pc = "cashflow"
    /\ LET net_income == metrics["net_income"]
           ocf == GetDataSafe(cf_stmt, <<"Operating Cash Flow">>)
           capex == GetDataSafe(cf_stmt, <<"Capital Expenditure">>)
           fcf == SAdd(ocf, capex)
           series == metrics @@ ("ocf" :> ocf) @@ ("capex" :> capex) @@ ("fcf" :> fcf)
       IN  IF Len(ocf.index) = 0 \/ Len(net_income.index) = 0
           THEN /\ metrics' = series
                /\ pc' = "failed"
                /\ error' = "IndexError"
           ELSE /\ metrics' = series
                      @@ ("ocf_to_ni" :> Div(ILast(ocf), ILast(net_income)))
                      @@ ("fcf_to_ni" :> Div(ILast(fcf), ILast(net_income)))
                /\ pc' = "safety"
                /\ error' = error
    /\ sections' = Append(sections, "cashflow")
    /\ UNCHANGED <<stock, is_stmt, cf_stmt, bs_stmt, annual_price, years,
                   years_label, accessorVars>>

\* `x > 3` on a float
GreaterThan3(v) ==
    CASE v.k = "num" -> v.n > 3 * v.d
      [] v.k = "inf" -> TRUE
      [] OTHER -> FALSE

\* lines 159-183: section 5
Safety ==
    /\ pc = "safety"
    /\ LET assets == GetDataSafe(bs_stmt, <<"Total Assets">>)
           liab == GetDataSafe(bs_stmt, <<"Total Liabilities Net Minority Interest",
                                          "Total Liabilities">>)
           equity == GetDataSafe(bs_stmt, <<"Stockholders Equity">>)
           ebit == GetDataSafe(is_stmt, <<"EBIT">>)
           int_exp == SAbs(GetDataSafe(is_stmt, <<"Interest Expense">>))
           debt_ratio == SMulC(SDiv(liab, assets), 100)
           equity_mult == SDiv(assets, equity)
           current_ratio ==
               SDiv(GetDataSafe(bs_stmt, <<"Total Current Assets", "Current Assets">>),
                    GetDataSafe(bs_stmt, <<"Total Current Liabilities",
                                           "Current Liabilities">>))
           int_coverage == IF MeanNonZero(int_exp) THEN SDiv(ebit, int_exp)
                           ELSE NoneSeries(Len(years))
           series == metrics @@ ("assets" :> assets) @@ ("liab" :> liab)
                             @@ ("equity" :> equity) @@ ("ebit" :> ebit)
                             @@ ("int_exp" :> int_exp) @@ ("debt_ratio" :> debt_ratio)
                             @@ ("equity_mult" :> equity_mult)
                             @@ ("current_ratio" :> current_ratio)
                             @@ ("int_coverage" :> int_coverage)
       IN  IF \/ Len(equity_mult.index) = 0
              \/ Len(int_coverage.index) = 0
              \/ Len(current_ratio.index) = 0
           THEN /\ metrics' = series
                /\ pc' = "failed"
                /\ error' = "IndexError"
           ELSE /\ metrics' = series
                      @@ ("equity_mult_latest" :> ILast(equity_mult))
                      @@ ("int_coverage_latest" :> ILast(int_coverage))
                      @@ ("int_coverage_safe" :> GreaterThan3(ILast(int_coverage)))
                      @@ ("current_ratio_latest" :> ILast(current_ratio))
                /\ pc' = "done"
                /\ error' = error
    /\ sections' = Append(sections, "safety")
    /\ UNCHANGED <<stock, is_stmt, cf_stmt, bs_stmt, annual_price, years,
                   years_label, accessorVars>>

Next == Fetch \/ Valuation \/ Profitability \/ Efficiency \/ CashFlow \/ Safety

Spec == Init /\ [][Next]_vars

SpecBalance == InitBalance /\ [][Next]_vars

\* ------------------------------------------------------------------ properties
Returned == apc \in {"resolved", "rechecked"}

\* alias number i is the earliest-listed alias with a row in the table
EarliestPresent(i) ==
    /\ i \in 1..Len(aliases)
    /\ InIndex(table, aliases[i])
    /\ \A j \in 1..(i - 1) : ~InIndex(table, aliases[j])

\* the cell of row l at period p, a missing cell read as 0
Filled(l, p) == IF table.data[l][p].k = "nan" THEN Num(0) ELSE table.data[l][p]

\* the returned series is row l, missing cells read as 0
ReturnsRow(l) ==
    /\ resolved.index = table.columns
    /\ \A p \in Range(table.columns) : resolved.val[p] = Filled(l, p)

AllMissing(l) == \A p \in Range(table.columns) : table.data[l][p].k = "nan"

\* C1: when rows of several aliases are present, get_data_safe returns the
\* row of the earliest-listed alias that is present, and returns the same
\* series when the table's rows come in another order.
C1_EarliestAliasWins ==
    Returned =>
        /\ \A i \in 1..Len(aliases) : EarliestPresent(i) => ReturnsRow(aliases[i])
        /\ apc = "rechecked" => resolved = previous

\* C1's case: two aliases have rows that differ, the earlier-listed alias is
\* the later row of the table, and the call was repeated on reordered rows.
C1_Witness ==
    /\ apc = "rechecked"
    /\ Len(table.columns) > 0
    /\ \E i, j \in 1..Len(aliases) :
          /\ i < j
          /\ EarliestPresent(i)
          /\ InIndex(table, aliases[j])
          /\ table.index = <<aliases[i], aliases[j]>>
          /\ \E p \in Range(table.columns) : Filled(aliases[i], p) # Filled(aliases[j], p)

\* C2: for a table with at least one period column, get_data_safe returns one
\* finite number per period column, a missing cell of the matched row read
\* as 0.0, and all 0.0 when no alias matches.
C2_TotalNumericSeries ==
    (Returned /\ Len(table.columns) >= 1) =>
        /\ Len(resolved.index) = Len(table.columns)
        /\ resolved.index = table.columns
        /\ \A p \in Range(table.columns) : IsFinite(resolved.val[p])
        /\ \A i \in 1..Len(aliases) : \A p \in Range(table.columns) :
              (EarliestPresent(i) /\ table.data[aliases[i]][p].k = "nan")
                  => resolved.val[p] = Num(0)
        /\ (\A i \in 1..Len(aliases) : ~InIndex(table, aliases[i]))
              => \A p \in Range(table.columns) : resolved.val[p] = Num(0)

\* C2's case: the matched row has a missing cell beside a non-zero one.
C2_Witness ==
    /\ apc = "resolved"
    /\ \E i \in 1..Len(aliases) :
          /\ EarliestPresent(i)
          /\ \E p, q \in Range(table.columns) :
                /\ table.data[aliases[i]][p].k = "nan"
                /\ table.data[aliases[i]][q] = Num(3)

\* C3: when the earliest matching row is all missing and a later alias has a
\* row with a non-missing value, the later row is returned.
C3_SkipsAllMissingRow ==
    Returned =>
        \A i, j \in 1..Len(aliases) :
            ( /\ i < j
              /\ Len(table.columns) >= 1
              /\ EarliestPresent(i)
              /\ AllMissing(aliases[i])
              /\ InIndex(table, aliases[j])
              /\ ~AllMissing(aliases[j])
              /\ \A m \in (i + 1)..(j - 1) :
                    InIndex(table, aliases[m]) => AllMissing(aliases[m]) )
            => ReturnsRow(aliases[j])

Computed(name) == name \in DOMAIN metrics

Aligned == is_stmt.columns = bs_stmt.columns /\ is_stmt.columns = cf_stmt.columns

StrictlyIncreasing(q) == \A i \in 1..(Len(q) - 1) : q[i] < q[i + 1]

NotInfNaN(v) == v.k \notin {"inf", "ninf", "nan"}

RatioSeries ==
    {"gross_margin", "net_margin", "dso", "dio", "dpo", "c2c_cycle",
     "inventory_turns", "receivable_turns", "debt_ratio", "equity_mult",
     "current_ratio", "int_coverage"}

RatioFigures == {"ocf_to_ni", "fcf_to_ni"}

\* C4: no ratio of the report holds an infinite or NaN value in any period,
\* whatever zeros its denominator holds (the statements sharing one period
\* axis, so that no value is missing for lack of a period).
C4_NoInfNaNRatio ==
    Aligned =>
        /\ \A name \in RatioSeries : Computed(name) =>
              \A p \in Range(metrics[name].index) : NotInfNaN(metrics[name].val[p])
        /\ \A name \in RatioFigures : Computed(name) => NotInfNaN(metrics[name])

\* C5: after the sort-and-truncate step the three statements have the same,
\* strictly increasing period columns.
C5_SharedPeriodAxis ==
    pc \notin {"idle", "fetch"} =>
        /\ Aligned
        /\ StrictlyIncreasing(is_stmt.columns)

\* C6: with an income statement of zero period columns the run computes no
\* metric, renders no section and reports InsufficientDataError.
C6_EmptyIncomeAborts ==
    (pc \notin {"idle", "fetch"} /\ Len(is_stmt.columns) = 0) =>
        /\ sections = <<>>
        /\ DOMAIN metrics = {}
        /\ error \in {"", "InsufficientDataError"}
        /\ pc \in {"valuation", "failed"}

RowPresent(df, l) == InIndex(df, l)

\* C7: with no total-liabilities row (or one summing to zero) and total
\* assets and equity present, the liabilities used for debt_ratio are
\* assets - equity in every period, and debt_ratio is that over assets.
C7_LiabilitiesFallback ==
    ( /\ pc = "done"
      /\ IsZero(SSum(GetDataSafe(bs_stmt, <<"Total Liabilities Net Minority Interest",
                                             "Total Liabilities">>)))
      /\ RowPresent(bs_stmt, "Total Assets")
      /\ RowPresent(bs_stmt, "Stockholders Equity") )
    => \A p \in Range(bs_stmt.columns) :
          /\ metrics["liab"].val[p]
                = Sub(metrics["assets"].val[p], metrics["equity"].val[p])
          /\ metrics["debt_ratio"].val[p]
                = MulC(Div(Sub(metrics["assets"].val[p], metrics["equity"].val[p]),
                           metrics["assets"].val[p]), 100)

\* C9: with interest expense zero in some period and EBIT non-zero, every
\* period of interest_coverage is a finite number.
C9_InterestCoverageFinite ==
    ( /\ pc = "done"
      /\ \E p \in Range(is_stmt.columns) : IsZero(metrics["int_exp"].val[p])
      /\ \A p \in Range(is_stmt.columns) : ~IsZero(metrics["ebit"].val[p]) )
    => \A p \in Range(metrics["int_coverage"].index) :
          IsFinite(metrics["int_coverage"].val[p])

\* C10: when the total-current-assets (or total-current-liabilities) row
\* resolves to a series summing to zero, current_ratio is computed from the
\* same current assets and current liabilities as the working capital.
C10_CurrentRatioUsesFallback ==
    ( /\ pc = "done"
      /\ \/ IsZero(SSum(GetDataSafe(bs_stmt, <<"Total Current Assets",
                                               "Current Assets">>)))
         \/ IsZero(SSum(GetDataSafe(bs_stmt, <<"Total Current Liabilities",
                                               "Current Liabilities">>))) )
    => metrics["current_ratio"]
          = SDiv(WcCurrentAssets(bs_stmt), WcCurrentLiabilities(bs_stmt))

\* the balance-sheet cell of row l at period p as an integer, a missing cell
\* or a missing row read as 0
CellOr0(l, p) ==
    IF InIndex(bs_stmt, l) /\ bs_stmt.data[l][p].k = "num"
    THEN bs_stmt.data[l][p].n
    ELSE 0

\* the figure of a field at period p: its first alias' row when the balance
\* sheet has one, otherwise its second alias' row
Field(first, second, p) ==
    IF InIndex(bs_stmt, first) THEN CellOr0(first, p) ELSE CellOr0(second, p)

RECURSIVE FieldTotal(_, _, _)
FieldTotal(first, second, periods) ==
    IF periods = {} THEN 0
    ELSE LET p == CHOOSE x \in periods : TRUE
         IN  Field(first, second, p) + FieldTotal(first, second, periods \ {p})

CashAt(p) ==
    Field("Cash And Cash Equivalents",
          "Cash Cash Equivalents And Short Term Investments", p)

ShortTermDebtAt(p) == CellOr0("Current Debt", p)

\* current assets at period p: the total, or cash + receivables + inventory
\* when the total sums to zero over the periods
CurrentAssetsAt(p) ==
    IF FieldTotal("Total Current Assets", "Current Assets", Range(bs_stmt.columns)) # 0
    THEN Field("Total Current Assets", "Current Assets", p)
    ELSE CashAt(p) + Field("Net Receivables", "Receivables", p) + CellOr0("Inventory", p)

\* current liabilities at period p: the total, or payables + tax liabilities
\* when the total sums to zero over the periods
CurrentLiabilitiesAt(p) ==
    IF FieldTotal("Total Current Liabilities", "Current Liabilities",
                  Range(bs_stmt.columns)) # 0
    THEN Field("Total Current Liabilities", "Current Liabilities", p)
    ELSE CellOr0("Accounts Payable", p) + Field("Tax Liabilities", "Income Tax Payable", p)

====
